---- MODULE Spec2Model ----
(***************************************************************************)
(* A model of the Siteswap constructor of src/index.js: the analysis of a  *)
(* siteswap pattern (a string) under the options allowTheoreticalPatterns  *)
(* and maximumLength.  A pattern is a sequence of one-character strings.   *)
(* The constructor is a pure function of (pattern, options); it is the     *)
(* operator Siteswap below, and the state machine types a pattern and      *)
(* then constructs the Siteswap for it.                                    *)
(***************************************************************************)
EXTENDS Integers, Sequences, FiniteSets, TLC

VARIABLES
  input,    \* the pattern typed so far: the first argument of the constructor
  typed,    \* the number of keys pressed
  options,  \* the second argument: [allowTheoreticalPatterns, maximumLength]
  outcome   \* what the constructor did, Pending before it has run

vars == <<input, typed, options, outcome>>

(***************************************************************************)
(* Bounds of the model.                                                    *)
(***************************************************************************)
\* The most keys a caller presses before constructing.
MaxKeys == 5

\* The most keys pressed on the keyboard of chains and tuples.
MaxSyncKeys == 3

\* The most times a pattern is written in a row.
MaxRepeat == 3

\* The most characters typed one by one.
MaxCharKeys == 4

(***************************************************************************)
(* Characters.                                                             *)
(***************************************************************************)
\* [\da-o] in the order of their values in base 25 (index - 1 is the value).
Alphanumeric ==
  <<"0", "1", "2", "3", "4", "5", "6", "7", "8", "9", "a", "b", "c", "d", "e",
    "f", "g", "h", "i", "j", "k", "l", "m", "n", "o">>

\* The letter "o" is the largest alphanumeric value: base = 15 + 10.
base == Len(Alphanumeric)

DecimalDigits == SubSeq(Alphanumeric, 1, 10)

IsAlphanumeric(c) == \E i \in 1..Len(Alphanumeric) : Alphanumeric[i] = c

IsDecimal(c) == \E i \in 1..Len(DecimalDigits) : DecimalDigits[i] = c

DigitValue(c) == (CHOOSE i \in 1..Len(Alphanumeric) : Alphanumeric[i] = c) - 1

\* /\s/ : the whitespace characters of the model's alphabets.
IsWhitespace(c) == c \in {" ", "\t", "\n"}

\* String.prototype.toLowerCase on one character (the upper-case letters of
\* the model's alphabets; every other character is its own lower case).
LowerCaseChar(c) ==
  CASE c = "A" -> "a"
    [] c = "B" -> "b"
    [] c = "O" -> "o"
    [] c = "P" -> "p"
    [] c = "X" -> "x"
    [] OTHER -> c

IsNoWhitespace(c) == ~IsWhitespace(c)

\* pattern.replace(/\s/g, "")
RemoveWhitespace(s) == SelectSeq(s, IsNoWhitespace)

ToLowerCase(s) == [i \in 1..Len(s) |-> LowerCaseChar(s[i])]

\* The preprocessing with the whitespace kept.
Preprocess_KeepWhitespace(s) == ToLowerCase(s)

\* pattern.replace(/\s/g, "").toLowerCase()
Preprocess(s) == ToLowerCase(RemoveWhitespace(s))

(***************************************************************************)
(* The grammar (the syntax table).  XEnd(s, i) is the index after the      *)
(* longest match of X in s starting at index i, or 0 when X does not match *)
(* there.                                                                  *)
(* The grammar is unambiguous, so the regular expression's backtracking    *)
(* finds exactly this match.                                               *)
(***************************************************************************)
At(s, i) == IF i >= 1 /\ i <= Len(s) THEN s[i] ELSE ""

RECURSIVE RunEnd(_, _, _)
\* The index after the run of characters of the set cs starting at i.
RunEnd(s, i, cs) == IF At(s, i) \in cs THEN RunEnd(s, i + 1, cs) ELSE i

DecimalSet == {DecimalDigits[i] : i \in 1..Len(DecimalDigits)}

\* syntax.sign = (-?)
SignEnd(s, i) == IF At(s, i) = "-" THEN i + 1 ELSE i

\* syntax.value = ((-?)[\da-o]|\{(-?)\d+\})
ValueEnd(s, i) ==
  LET Close(j, k) == IF k > j /\ At(s, k) = "}" THEN k + 1 ELSE 0
      Digits(j) == Close(j, RunEnd(s, j, DecimalSet))
      Digit(j) == IF IsAlphanumeric(At(s, j)) THEN j + 1 ELSE 0
  IN  IF At(s, i) = "{"
      THEN Digits(SignEnd(s, i + 1))
      ELSE Digit(SignEnd(s, i))

\* syntax.quantity = (\^value)
QuantityEnd(s, i) == IF At(s, i) = "^" THEN ValueEnd(s, i + 1) ELSE 0

\* quantity? : the optional exponent after an element ending before i.
OptQuantityEnd(s, i) ==
  LET Or(q) == IF q = 0 THEN i ELSE q IN Or(QuantityEnd(s, i))

\* syntax.event = (value(x)*)
EventEnd(s, i) ==
  LET Crosses(v) == IF v = 0 THEN 0 ELSE RunEnd(s, v, {"x"})
  IN  Crosses(ValueEnd(s, i))

\* syntax.events = (event quantity?)
EventsEnd(s, i) ==
  LET Quantity(e) == IF e = 0 THEN 0 ELSE OptQuantityEnd(s, e)
  IN  Quantity(EventEnd(s, i))

RECURSIVE EventsRunEnd(_, _)
\* events* : the index after the longest run of event chains starting at i.
EventsRunEnd(s, i) ==
  LET More(e) == IF e = 0 THEN i ELSE EventsRunEnd(s, e)
  IN  More(EventsEnd(s, i))

\* syntax.action = (\[events+\]|event)
ActionEnd(s, i) ==
  LET Close(k) == IF k > i + 1 /\ At(s, k) = "]" THEN k + 1 ELSE 0
  IN  IF At(s, i) = "["
      THEN Close(EventsRunEnd(s, i + 1))
      ELSE EventEnd(s, i)

RECURSIVE TupleRestEnd(_, _)
\* (,action)*\) : the rest of a tuple after an action ending before i.
TupleRestEnd(s, i) ==
  LET More(a) == IF a = 0 THEN 0 ELSE TupleRestEnd(s, a)
  IN  IF At(s, i) = ")" THEN i + 1
      ELSE IF At(s, i) = "," THEN More(ActionEnd(s, i + 1))
      ELSE 0

\* syntax.tuple = (\(action(,action)*\))
TupleEnd(s, i) ==
  LET Rest(a) == IF a = 0 THEN 0 ELSE TupleRestEnd(s, a)
  IN  IF At(s, i) = "(" THEN Rest(ActionEnd(s, i + 1)) ELSE 0

\* syntax.group = (tuple suppression?|action), suppression = (!+)
GroupEnd(s, i) ==
  LET Suppression(t) == IF t = 0 THEN 0 ELSE RunEnd(s, t, {"!"})
  IN  IF At(s, i) = "("
      THEN Suppression(TupleEnd(s, i))
      ELSE ActionEnd(s, i)

\* syntax.groups = (group quantity?)
GroupsEnd(s, i) ==
  LET Quantity(g) == IF g = 0 THEN 0 ELSE OptQuantityEnd(s, g)
  IN  Quantity(GroupEnd(s, i))

RECURSIVE GroupsRunEnd(_, _)
GroupsRunEnd(s, i) ==
  LET More(g) == IF g = 0 THEN i ELSE GroupsRunEnd(s, g)
  IN  More(GroupsEnd(s, i))

\* new RegExp(`^${syntax.pattern}$`).test(pattern), syntax.pattern = (groups+)
MatchesPattern(s) == s # <<>> /\ GroupsRunEnd(s, 1) = Len(s) + 1

(***************************************************************************)
(* The chain decomposer: the parse tree of a pattern that matches the      *)
(* grammar.  An event is [value, offset, quantity]; an action is a         *)
(* sequence of events; a group is [actions, quantity, suppression, idx,    *)
(* implicit], idx being the 0-based index of the group object in the       *)
(* parsed list (the identity the source compares with includes()).         *)
(***************************************************************************)
RECURSIVE DecimalValue(_, _, _, _)
\* parseInt of the decimal digits s[i..e-1], acc being the value so far.
DecimalValue(s, i, e, acc) ==
  IF i >= e THEN acc ELSE DecimalValue(s, i + 1, e, 10 * acc + DigitValue(s[i]))

\* convertValue on the value s[i..e-1]
convertValue(s, i, e) ==
  IF s[i] = "{"
  THEN LET j == SignEnd(s, i + 1)
           n == DecimalValue(s, j, e - 1, 0)
       IN  IF j > i + 1 THEN 0 - n ELSE n
  ELSE LET j == SignEnd(s, i)
       IN  IF j > i THEN 0 - DigitValue(s[j]) ELSE DigitValue(s[j])

\* decomposeChain: the quantity of a chain whose element ends before i.
ChainQuantity(s, i) ==
  LET q == QuantityEnd(s, i) IN IF q = 0 THEN 1 ELSE convertValue(s, i + 1, q)

\* The event starting at i: its value and its number of crosses.  The
\* quantity is that of the event chain when the event is inside brackets.
ParseEvent(s, i, bracketed) ==
  LET v == ValueEnd(s, i)
      x == RunEnd(s, v, {"x"})
  IN  [value |-> convertValue(s, i, v), offset |-> x - v,
       quantity |-> IF bracketed THEN ChainQuantity(s, x) ELSE 1]

RECURSIVE ParseEvents(_, _)
\* The event chains of a multiplex, from index i up to the closing bracket.
ParseEvents(s, i) ==
  LET e == EventsEnd(s, i)
  IN  IF e = 0 THEN <<>> ELSE <<ParseEvent(s, i, TRUE)>> \o ParseEvents(s, e)

\* The action starting at i: a multiplex or a single event.
ParseAction(s, i) ==
  IF At(s, i) = "[" THEN ParseEvents(s, i + 1) ELSE <<ParseEvent(s, i, FALSE)>>

RECURSIVE ParseTupleRest(_, _)
\* The actions of a tuple after the action ending before i.
ParseTupleRest(s, i) ==
  IF At(s, i) = ","
  THEN <<ParseAction(s, i + 1)>> \o ParseTupleRest(s, ActionEnd(s, i + 1))
  ELSE <<>>

\* The group chain starting at i, as the idx-th group of the pattern.
ParseGroup(s, i, idx) ==
  LET g == GroupEnd(s, i)
  IN  IF At(s, i) = "("
      THEN LET t == TupleEnd(s, i)
           IN  [actions |-> <<ParseAction(s, i + 1)>>
                              \o ParseTupleRest(s, ActionEnd(s, i + 1)),
                quantity |-> ChainQuantity(s, g),
                suppression |-> g - t,
                idx |-> idx,
                implicit |-> FALSE]
      ELSE [actions |-> <<ParseAction(s, i)>>,
            quantity |-> ChainQuantity(s, g),
            suppression |-> 0,
            idx |-> idx,
            implicit |-> TRUE]

RECURSIVE ParseGroups(_, _, _)
\* decomposeChain(pattern, syntax.groups, syntax.group) from index i on.
ParseGroups(s, i, idx) ==
  LET e == GroupsEnd(s, i)
  IN  IF e = 0 THEN <<>>
      ELSE <<ParseGroup(s, i, idx)>> \o ParseGroups(s, e, idx + 1)

(***************************************************************************)
(* Arithmetic helpers.                                                     *)
(***************************************************************************)
Abs(n) == IF n < 0 THEN 0 - n ELSE n

\* Math.sign
Sign(n) == IF n > 0 THEN 1 ELSE IF n < 0 THEN 0 - 1 ELSE 0

Min(a, b) == IF a < b THEN a ELSE b

Max(a, b) == IF a > b THEN a ELSE b

RECURSIVE Gcd(_, _)
Gcd(a, b) == IF b = 0 THEN a ELSE Gcd(b, a % b)

\* function mod (x, n): ((x % n) + n) % n, for n > 0
mod(x, n) == x % n

\* The sum of f[lo] .. f[hi], by halves.
RECURSIVE SumBetween(_, _, _)
SumBetween(f, lo, hi) ==
  IF lo > hi THEN 0
  ELSE IF lo = hi THEN f[lo]
  ELSE SumBetween(f, lo, (lo + hi) \div 2)
         + SumBetween(f, (lo + hi) \div 2 + 1, hi)

\* The sum of f[1] .. f[Len(f)] for a sequence f of integers.
SumSeq(f) == SumBetween(f, 1, Len(f))

\* A number that need not be an integer (the period, after period *=
\* interval / sequence.length): num / den in lowest terms, den > 0.
Rational(n, d) ==
  LET g == Gcd(Abs(n), d) IN [num |-> n \div g, den |-> d \div g]

IsInteger(r) == r.den = 1

\* ToIntegerOrInfinity of |r|: the truncation slice() applies to its
\* arguments.
TruncAbs(r) == Abs(r.num) \div r.den

(***************************************************************************)
(* Accumulation during decomposition: period, cardinality, errors, hands.  *)
(***************************************************************************)
\* The sum over the events of an action of value * event.quantity.
ActionMass(events) ==
  SumSeq([k \in 1..Len(events) |-> events[k].value * events[k].quantity])

\* cardinality += value * event.quantity * group.quantity, over one group.
GroupMass(g) ==
  g.quantity * SumSeq([k \in 1..Len(g.actions) |-> ActionMass(g.actions[k])])

\* The cardinality accumulated over the pattern (before the division).
TotalMass(groups) == SumSeq([k \in 1..Len(groups) |-> GroupMass(groups[k])])

\* The beats of a group, were its suppression not subtracted.
GroupBeats_Unsuppressed(g) == g.quantity * Len(g.actions)

\* period += group.quantity * (actions.length - suppression)
GroupBeats(g) == g.quantity * (Len(g.actions) - g.suppression)

AccumulatedPeriod(groups) ==
  SumSeq([k \in 1..Len(groups) |-> GroupBeats(groups[k])])

\* Some event of the group has value 0 and a non-zero offset.
HasCrossingZero(g) ==
  \E a \in 1..Len(g.actions) : \E e \in 1..Len(g.actions[a]) :
    g.actions[a][e].value = 0 /\ g.actions[a][e].offset # 0

\* hands, as <<>> for null and <<n>> for the number n.  The hand count
\* after the groups before index k: the number of actions of the first
\* explicit group among them.
HandsBefore(groups, k) ==
  LET explicit == {j \in 1..(k - 1) : ~groups[j].implicit}
  IN  IF explicit = {} THEN <<>>
      ELSE LET first == CHOOSE j \in explicit : \A i \in explicit : j <= i
           IN  <<Len(groups[first].actions)>>

\* The decomposition loop without the test of crossing zeros.
GroupError_Ungated(groups, k, allowTheoreticalPatterns) ==
  LET g == groups[k]
      hands == HandsBefore(groups, k)
  IN  IF g.suppression < 0 \/ g.suppression >= Len(g.actions)
      THEN "InvalidSuppression"
      ELSE IF ~g.implicit /\ hands # <<>> /\ <<Len(g.actions)>> # hands
      THEN "InconsistentHandCount"
      ELSE ""

\* The error the decomposition loop throws while it handles group k, or "".
GroupError(groups, k, allowTheoreticalPatterns) ==
  LET g == groups[k]
      hands == HandsBefore(groups, k)
  IN  IF ~allowTheoreticalPatterns /\ HasCrossingZero(g)
      THEN "TheoreticalDisallowed"
      ELSE IF g.suppression < 0 \/ g.suppression >= Len(g.actions)
      THEN "InvalidSuppression"
      ELSE IF ~g.implicit /\ hands # <<>> /\ <<Len(g.actions)>> # hands
      THEN "InconsistentHandCount"
      ELSE ""

\* The error of the first group that throws, or "".
DecompositionError(groups, allowTheoreticalPatterns) ==
  LET bad == {k \in 1..Len(groups) :
                GroupError(groups, k, allowTheoreticalPatterns) # ""}
  IN  IF bad = {} THEN ""
      ELSE GroupError(groups, CHOOSE k \in bad : \A j \in bad : k <= j,
                      allowTheoreticalPatterns)

\* The value of the counter `hand` when the loop reaches group k (k may be
\* Len(groups) + 1: the counter after the loop): ++hand after each implicit
\* group, hand = 0 after each explicit one.
HandCounter(groups, k) ==
  LET c[j \in 1..k] ==
        IF j = 1 THEN 0
        ELSE IF groups[j - 1].implicit THEN c[j - 1] + 1 ELSE 0
  IN  c[k]

\* implicit, after the loop and the reset of the leading entries: the
\* sequence of [index, hand], index being 0-based.  The entries whose place
\* in `implicit` equals their index (the implicit groups before the first
\* explicit one) take their hands from the counter left by the loop, when
\* the pattern has an explicit group.
ImplicitOf(groups) ==
  LET places == {k \in 1..Len(groups) : groups[k].implicit}
      n == Cardinality(places)
      \* the group index (1-based) of the j-th entry of implicit
      at[j \in 1..n] ==
        CHOOSE k \in places : Cardinality({i \in places : i < k}) = j - 1
      final == HandCounter(groups, Len(groups) + 1)
  IN  [j \in 1..n |->
         [index |-> at[j] - 1,
          hand |-> IF n < Len(groups) /\ at[j] - 1 = j - 1
                   THEN final + (j - 1)
                   ELSE HandCounter(groups, at[j])]]

\* this.hands, were a pattern without tuples given one hand.
HandsOf_NeverNull(groups) ==
  IF HandsBefore(groups, Len(groups) + 1) = <<>>
  THEN <<1>>
  ELSE HandsBefore(groups, Len(groups) + 1)

\* this.hands
HandsOf(groups) == HandsBefore(groups, Len(groups) + 1)

\* hands, after `if (hands === null) hands = 1`
EffectiveHands(hands) == IF hands = <<>> THEN 1 ELSE hands[1]

\* The offset check with > in the place of >=.
OffsetExceedsHands_Strict(groups, hands) ==
  \E k \in 1..Len(groups) : \E a \in 1..Len(groups[k].actions) :
    \E e \in 1..Len(groups[k].actions[a]) :
      groups[k].actions[a][e].offset > hands

\* groups.some(... offset >= hands)
OffsetExceedsHands(groups, hands) ==
  \E k \in 1..Len(groups) : \E a \in 1..Len(groups[k].actions) :
    \E e \in 1..Len(groups[k].actions[a]) :
      groups[k].actions[a][e].offset >= hands

(***************************************************************************)
(* The normaliser.                                                         *)
(***************************************************************************)
\* The placeholder action's event: { value: 0, offset: 0, quantity: 1 }
Placeholder == [value |-> 0, offset |-> 0, quantity |-> 1]

\* equality.events
equalityEvents(a, b) == a.value = b.value /\ a.offset = b.offset

\* equality.actions (an action is its sequence of events)
equalityActions(a, b) ==
  /\ Len(a) = Len(b)
  /\ \A index \in 1..Len(a) :
       equalityEvents(a[index], b[index]) /\ a[index].quantity = b[index].quantity

\* equality.groups: the quantity of the groups is not compared.
equalityGroups(a, b) ==
  /\ Len(a.actions) = Len(b.actions)
  /\ a.suppression = b.suppression
  /\ \A index \in 1..Len(a.actions) :
       equalityActions(a.actions[index], b.actions[index])

\* The object `equality`: equal names one of its functions.
equality(equal, a, b) ==
  CASE equal = "events" -> equalityEvents(a, b)
    [] equal = "actions" -> equalityActions(a, b)
    [] equal = "groups" -> equalityGroups(a, b)

\* reduceSequence: collapse adjacent chains that are equal into the first
\* of them, summing the quantities, and then remove the chains of quantity
\* 0 (the filter runs after the whole collapse).
reduceSequence(sequence, equal) ==
  LET chains[k \in 0..Len(sequence)] ==
        IF k = 0 THEN <<>>
        ELSE LET prev == chains[k - 1]
                 chain == sequence[k]
             IN  IF prev = <<>> \/ ~equality(equal, chain, prev[Len(prev)])
                 THEN Append(prev, chain)
                 ELSE [prev EXCEPT ![Len(prev)].quantity = @ + chain.quantity]
  IN  SelectSeq(chains[Len(sequence)], LAMBDA chain : chain.quantity # 0)

\* events.sort((a, b) => a.value - b.value): a stable sort by value (an
\* insertion sort: each event goes after the events that are not greater).
SortByValue(events) ==
  LET Insert(sorted, e) ==
        LET n == Cardinality({k \in 1..Len(sorted) : sorted[k].value <= e.value})
        IN  SubSeq(sorted, 1, n) \o <<e>> \o SubSeq(sorted, n + 1, Len(sorted))
      s[k \in 0..Len(events)] ==
        IF k = 0 THEN <<>> ELSE Insert(s[k - 1], events[k])
  IN  s[Len(events)]

\* The per-action normalisation: remove the non-crossing zeroes, sort,
\* collapse, and leave a placeholder in an action that became empty.
NormaliseAction(events) ==
  LET filtered == SelectSeq(events, LAMBDA e : e.value # 0 \/ e.offset # 0)
      reduced == reduceSequence(SortByValue(filtered), "events")
  IN  IF Len(reduced) = 0 THEN <<Placeholder>> ELSE reduced

NormaliseActions(groups) ==
  [k \in 1..Len(groups) |->
     [groups[k] EXCEPT !.actions =
        [a \in 1..Len(groups[k].actions) |-> NormaliseAction(groups[k].actions[a])]]]

\* The slice reducePeriod settles on: the smallest slice of at most half
\* the length that divides the length and whose consecutive copies are
\* pairwise equal, or else the whole length.
Interval(sequence, equal) ==
  LET L == Len(sequence)
      Fits(slice) ==
        /\ L % slice = 0
        /\ \A offset \in 0..(L \div slice - 2) : \A index \in 1..slice :
             equality(equal, sequence[offset * slice + index],
                   sequence[(offset + 1) * slice + index])
      fitting == {slice \in 1..(L \div 2) : Fits(slice)}
  IN  IF fitting = {} THEN L
      ELSE CHOOSE slice \in fitting : \A other \in fitting : slice <= other

\* reducePeriod(sequence, equality.groups) on a non-empty sequence, with
\* the period accumulated so far: [groups, period], period being a Rational.
reducePeriod(sequence, period) ==
  LET interval == Interval(sequence, "groups")
      first == [sequence[1] EXCEPT !.quantity = Sign(@)]
  IN  IF interval = 1
      THEN [groups |-> <<first>>,
            period |-> Rational(first.quantity
                                * (Len(first.actions) - first.suppression), 1)]
      ELSE [groups |-> SubSeq(sequence, 1, interval),
            period |-> Rational(period * interval, Len(sequence))]

\* The conversion of the implicit groups that are still in `groups`: for
\* each entry of implicit whose group object survived, groups[index] (by
\* its place in the normalised list) gets suppression hands - 1 and the
\* placeholder actions before and after.  [ok, groups]: ok is FALSE when
\* some groups[index] is undefined (the assignment throws a TypeError).
ConvertImplicit(groups, implicit, hands) ==
  LET kept == SelectSeq(implicit,
                LAMBDA inference : \E k \in 1..Len(groups) :
                                     groups[k].idx = inference.index)
      Filler(n) == [j \in 1..n |-> <<Placeholder>>]
      Convert(group, hand) ==
        [group EXCEPT !.suppression = hands - 1,
                      !.actions = Filler(hand % hands) \o @
                                    \o Filler(hands - ((hand % hands) + 1))]
      step[j \in 0..Len(kept)] ==
        IF j = 0 THEN [ok |-> TRUE, groups |-> groups]
        ELSE LET prev == step[j - 1]
                 at == kept[j].index + 1
             IN  IF ~prev.ok \/ at > Len(groups)
                 THEN [ok |-> FALSE, groups |-> prev.groups]
                 ELSE [ok |-> TRUE,
                       groups |-> [prev.groups EXCEPT
                                     ![at] = Convert(@, kept[j].hand)]]
  IN  step[Len(kept)]

(***************************************************************************)
(* Range inference.                                                        *)
(***************************************************************************)
\* The position at which the walk of range inference reaches group k: the
\* position advances by actions.length - suppression once per repetition,
\* Math.abs(quantity) times.
RangePosition(groups, k) ==
  LET p[j \in 1..k] ==
        IF j = 1 THEN 0
        ELSE p[j - 1] + Abs(groups[j - 1].quantity)
                        * (Len(groups[j - 1].actions) - groups[j - 1].suppression)
  IN  p[k]

\* The (hand, beat) pairs extendRange is called with.
RangeSites(groups, hands) ==
  UNION {
    LET group == groups[k]
        offset == IF group.quantity > 0 THEN 1 ELSE 0
        step == Len(group.actions) - group.suppression
    IN  UNION {
          LET events == group.actions[a]
              position == RangePosition(groups, k) + index * step
          IN  UNION {
                {<<mod(a - 1, hands), position + offset>>,
                 <<mod((a - 1) + events[e].value + events[e].offset, hands),
                   position + offset + events[e].value>>}
                : e \in 1..Len(events)}
          : <<index, a>> \in (0..(Abs(group.quantity) - 1))
                               \X (1..Len(group.actions))}
    : k \in 1..Len(groups)}

\* ranges: for each hand 0 .. hands - 1 its [min, max]; empty stands for
\* the initial [Infinity, -Infinity] of a hand no site extends.
Ranges(groups, hands) ==
  LET sites == RangeSites(groups, hands)
  IN  [hand \in 0..(hands - 1) |->
         LET beats == {site[2] : site \in {x \in sites : x[1] = hand}}
         IN  IF beats = {} THEN [empty |-> TRUE, min |-> 0, max |-> 0]
             ELSE [empty |-> FALSE,
                   min |-> CHOOSE b \in beats : \A c \in beats : b <= c,
                   max |-> CHOOSE b \in beats : \A c \in beats : b >= c]]

\* The range limit with a window of exactly maximumLength refused.
RangeTooLarge_Inclusive(ranges, maximumLength) ==
  \E hand \in DOMAIN ranges :
    ~ranges[hand].empty /\ ranges[hand].max - ranges[hand].min >= maximumLength

\* ranges.some(([min, max]) => max - min > maximumLength); for an empty
\* range max - min is -Infinity.
RangeTooLarge(ranges, maximumLength) ==
  \E hand \in DOMAIN ranges :
    ~ranges[hand].empty /\ ranges[hand].max - ranges[hand].min > maximumLength

(***************************************************************************)
(* Delta construction.                                                     *)
(***************************************************************************)
\* The position at which the walk of delta construction reaches group k:
\* position += quantity * (actions.length - suppression), signed.
DeltaPosition(groups, k) ==
  LET p[j \in 1..k] ==
        IF j = 1 THEN 0
        ELSE p[j - 1] + groups[j - 1].quantity
                        * (Len(groups[j - 1].actions) - groups[j - 1].suppression)
  IN  p[k]

\* The writes `deltas[hand][index] += amount` of the walk, as a set of
\* [key, hand, index, amount]; the key tells the writes apart.  index is
\* the index into the array (0 is the beat min of the hand).
DeltaWrites(groups, ranges, hands) ==
  UNION {
    LET group == groups[k]
        increment == Sign(group.quantity)
        offset == IF group.quantity > 0 THEN 1 ELSE 0
        position == DeltaPosition(groups, k)
    IN  UNION {
          LET events == group.actions[a]
              hand == a - 1
              index == i * increment
              total == SumSeq([e \in 1..Len(events) |-> events[e].quantity])
          IN  {[key |-> <<k, a, i, 0>>, hand |-> hand,
                index |-> position - ranges[hand].min + index + offset,
                amount |-> 0 - total * increment]}
              \cup
              {LET target == mod(hand + events[e].value + events[e].offset, hands)
               IN  [key |-> <<k, a, i, e>>, hand |-> target,
                    index |-> position - ranges[target].min + index + offset
                              + events[e].value,
                    amount |-> events[e].quantity * increment]
               : e \in 1..Len(events)}
          : <<i, a>> \in (0..(Abs(group.quantity) - 1))
                           \X (1..Len(group.actions))}
    : k \in 1..Len(groups)}

RECURSIVE SumAmounts(_)
SumAmounts(writes) ==
  IF writes = {} THEN 0
  ELSE LET w == CHOOSE x \in writes : TRUE
       IN  w.amount + SumAmounts(writes \ {w})

\* deltas: for each hand the array, as [length, at]: at[i] for the indices
\* 0 .. max - min the array is allocated with.  A write at an index past the
\* end lengthens the array (length is its final length); a write at a
\* negative index sets a property that is no element.  Neither is read
\* again, so `at` keeps only the allocated indices.
Deltas(groups, ranges, hands) ==
  LET writes == DeltaWrites(groups, ranges, hands)
  IN  [hand \in 0..(hands - 1) |->
         LET mine == {w \in writes : w.hand = hand}
             size == ranges[hand].max - ranges[hand].min + 1
             last == IF mine = {} THEN 0 - 1
                     ELSE LET w == CHOOSE x \in mine :
                                     \A y \in mine : x.index >= y.index
                          IN  w.index
         IN  [length |-> Max(size, last + 1),
              at |-> [i \in 0..(size - 1) |->
                        SumAmounts({w \in mine : w.index = i})]]]

(***************************************************************************)
(* The solver, the validity test and the ground-state classifier.  An      *)
(* entry of a state array is a number or NaN.                              *)
(***************************************************************************)
Num(v) == [nan |-> FALSE, v |-> v]

NaN == [nan |-> TRUE, v |-> 0]

\* x - d for an entry x and an integer d
Minus(x, d) == IF x.nan THEN NaN ELSE Num(x.v - d)

\* beat === 0
IsZero(x) == ~x.nan /\ x.v = 0

\* The state array of one hand, as [length, at]: at[i] for every index
\* 0 .. length - 1.  The loop solves the beats min .. max (from max down when
\* the period is negative); state[after - min] is an earlier-solved entry
\* when the period is an integer and undefined (so the entry is NaN) when
\* it is not; the entries past max - min stay 0.  Unrolled, the entry of a
\* beat for an integer period is minus the sum of the deltas at before,
\* before - period, before - 2 * period, ... as far as these lie inside
\* min .. max.
SolveState(delta, range, period) ==
  LET min == range.min
      max == range.max
      \* after < min || after > max, for after = before - period
      Outside(before) ==
        \/ before * period.den - period.num < min * period.den
        \/ before * period.den - period.num > max * period.den
      \* The number of earlier-solved beats before - period,
      \* before - 2 * period, ... the entry of `before` goes back to.
      earlier(before) ==
        IF period.num > 0 THEN (before - min) \div period.num
        ELSE IF period.num < 0 THEN (max - before) \div (0 - period.num)
        ELSE 0
      solved(before) ==
        IF IsInteger(period)
        THEN Num(0 - SumSeq([k \in 1..(earlier(before) + 1) |->
                               delta.at[before - (k - 1) * period.num - min]]))
        ELSE IF Outside(before) THEN Minus(Num(0), delta.at[before - min])
        ELSE NaN
  IN  [length |-> delta.length,
       at |-> [i \in 0..(delta.length - 1) |->
                 IF i <= max - min THEN solved(min + i) ELSE Num(0)]]

\* (period > 0 ? state.slice(-period) : state.slice(0, -period)).every(
\*   (beat) => beat === 0)
TailIsZero(state, period) ==
  LET n == TruncAbs(period)
      from == IF period.num > 0
              THEN (IF n = 0 THEN 0 ELSE Max(state.length - n, 0))
              ELSE 0
      to == IF period.num > 0 THEN state.length - 1
            ELSE Min(n, state.length) - 1
  IN  \A i \in from..to : IsZero(state.at[i])

\* The beats the classifier visits for a hand: hand * sign + offset, then in
\* steps of hands * sign while Math.abs(beat) < Math.abs(cardinality) + offset.
GroundBeats(hand, cardinality, hands) ==
  LET sign == Sign(cardinality)
      offset == IF cardinality > 0 THEN 1 ELSE 0
  IN  {hand * sign + offset + j * hands * sign : j \in 0..Abs(cardinality)}
      \cap {beat \in (0 - Abs(cardinality))..(Abs(cardinality) + 1) :
              Abs(beat) < Abs(cardinality) + offset /\ cardinality # 0}

\* The classifier without its test of the other beats.
HandIsGround_BeatsOnly(state, range, hand, cardinality, hands) ==
  \A beat \in GroundBeats(hand, cardinality, hands) :
    /\ ~(beat < range.min \/ range.max < beat)
    /\ state.at[beat - range.min] = Num(Sign(cardinality))

\* The classifier's verdict on one hand.
HandIsGround(state, range, hand, cardinality, hands) ==
  /\ \A beat \in GroundBeats(hand, cardinality, hands) :
       /\ ~(beat < range.min \/ range.max < beat)
       /\ state.at[beat - range.min] = Num(Sign(cardinality))
  /\ \A i \in 0..(state.length - 1) : ~state.at[i].nan
  /\ SumSeq([i \in 1..state.length |-> Abs(state.at[i - 1].v)])
       = (Abs(cardinality) \div hands)
         + (IF hand < Abs(cardinality) % hands THEN 1 ELSE 0)

(***************************************************************************)
(* The normalised form as a string.                                        *)
(***************************************************************************)
RECURSIVE DecimalString(_)
\* `${integer}`: the decimal digits of an integer, with "-" when negative.
DecimalString(n) ==
  IF n < 0 THEN <<"-">> \o DecimalString(0 - n)
  ELSE IF n < 10 THEN <<DecimalDigits[n + 1]>>
       ELSE DecimalString(n \div 10) \o <<DecimalDigits[(n % 10) + 1]>>

\* convertInteger
convertInteger(integer) ==
  IF integer >= base THEN <<"{">> \o DecimalString(integer) \o <<"}">>
  ELSE IF integer >= 10 THEN <<Alphanumeric[integer + 1]>>
       ELSE DecimalString(integer)

\* The cutoff of sequenceToString.
cutoff == 2

\* string.repeat(n), for n >= 0
Repeat(string, n) ==
  LET r[k \in 0..n] == IF k = 0 THEN <<>> ELSE r[k - 1] \o string IN r[n]

\* The concatenation of a sequence of strings.
Concat(strings) ==
  LET c[k \in 0..Len(strings)] ==
        IF k = 0 THEN <<>> ELSE c[k - 1] \o strings[k]
  IN  c[Len(strings)]

\* What sequenceToString appends for one chain whose element is rendered as
\* `element`.  (No chain has quantity 0 after normalisation, so repeat() is
\* only reached with quantity - 1 >= 0.)
ChainToString(element, quantity) ==
  element \o
  (IF quantity # 1
   THEN IF quantity < 0 \/ quantity >= cutoff
        THEN <<"^">> \o convertInteger(quantity)
        ELSE Repeat(element, Max(quantity - 1, 0))
   ELSE <<>>)

\* elementToString of an event
EventToString(event) ==
  convertInteger(event.value) \o
  (IF event.offset < 0 \/ event.offset >= cutoff
   THEN <<"x", "^">> \o convertInteger(event.offset)
   ELSE Repeat(<<"x">>, event.offset))

\* The substring pushed for one action.
ActionToString(events) ==
  LET substring ==
        Concat([e \in 1..Len(events) |->
                  ChainToString(EventToString(events[e]), events[e].quantity)])
  IN  IF Len(events) = 0 THEN <<"0">>
      ELSE IF Len(events) # 1 \/ events[1].quantity # 1
           THEN <<"[">> \o substring \o <<"]">>
           ELSE substring

\* substrings.join(",")
JoinComma(strings) ==
  Concat([k \in 1..Len(strings) |->
            IF k = 1 THEN strings[k] ELSE <<",">> \o strings[k]])

\* elementToString of a group; hands is this.hands (<<>> for null).
GroupToString(group, hands) ==
  LET substrings ==
        [a \in 1..Len(group.actions) |-> ActionToString(group.actions[a])]
  IN  IF Len(group.actions) > 1 \/ hands = <<1>>
      THEN <<"(">> \o JoinComma(substrings) \o <<")">>
           \o Repeat(<<"!">>, group.suppression)
      ELSE JoinComma(substrings)

\* this.normalised = sequenceToString(groups, ..., cutoff)
NormalisedString(groups, hands) ==
  Concat([k \in 1..Len(groups) |->
            ChainToString(GroupToString(groups[k], hands), groups[k].quantity)])

(***************************************************************************)
(* The constructor.  Its outcome is a record: kind is "Result" when the    *)
(* constructor returns, and otherwise the name of what it throws           *)
(* ("SiteswapError", with the error it reports, or the "TypeError" or      *)
(* "RangeError" of the runtime).  `present` holds the names of the         *)
(* properties the constructor has set on the object; a property that is    *)
(* not present is undefined, whatever the record's field holds.  groups,   *)
(* ranges, deltas and states are the constructor's locals when it returns. *)
(***************************************************************************)
\* The name of the empty siteswap.
Epsilon == <<"epsilon">>

Blank ==
  [kind |-> "Result", error |-> "", present |-> {},
   pattern |-> <<>>, valid |-> FALSE, period |-> Rational(0, 1),
   cardinality |-> 0, hands |-> <<>>, ground |-> FALSE, excited |-> FALSE,
   normalised |-> <<>>,
   groups |-> <<>>, ranges |-> <<>>, deltas |-> <<>>, states |-> <<>>]

Throw(kind, error) == [Blank EXCEPT !.kind = kind, !.error = error]

\* The constructor from `let position` on (the groups are normalised and the
\* implicit groups converted): range inference, the limit, the deltas, the
\* solver, the validity test, the classifier and the normalised string.
Validate(this, groups, hands, period, maximumLength) ==
  LET ranges == Ranges(groups, hands)
      deltas == Deltas(groups, ranges, hands)
      states == [hand \in 0..(hands - 1) |->
                   SolveState(deltas[hand], ranges[hand], period)]
      valid == \A hand \in 0..(hands - 1) : TailIsZero(states[hand], period)
      ground == \A hand \in 0..(hands - 1) :
                  HandIsGround(states[hand], ranges[hand], hand,
                               this.cardinality, hands)
      solved == [this EXCEPT !.groups = groups, !.ranges = ranges,
                             !.deltas = deltas, !.states = states,
                             !.valid = valid,
                             !.present = @ \cup {"valid"}]
  IN  IF RangeTooLarge(ranges, maximumLength)
      THEN Throw("SiteswapError", "StateRangeTooLarge")
      ELSE IF \E hand \in 0..(hands - 1) : ranges[hand].empty
      \* new Array(-Infinity + 1)
      THEN Throw("RangeError", "")
      ELSE IF \E k \in 1..Len(groups) : Len(groups[k].actions) > hands
      \* const [min, max] = ranges[hand], ranges[hand] being undefined
      THEN Throw("TypeError", "")
      ELSE IF ~valid THEN solved
      ELSE [solved EXCEPT
              !.ground = ground, !.excited = ~ground,
              !.normalised = NormalisedString(groups, this.hands),
              !.present = @ \cup {"ground", "excited", "normalised"}]

\* The constructor from the normal form on: the normaliser, this.period and
\* the conversion of the implicit groups.
Normalise(this, parsed, hands, period, maximumLength) ==
  LET reduced == reduceSequence(NormaliseActions(parsed), "groups")
      minimal == reducePeriod(reduced, period)
      converted == ConvertImplicit(minimal.groups, ImplicitOf(parsed), hands)
      that == [this EXCEPT !.period = minimal.period,
                           !.present = @ \cup {"period"}]
  IN  IF ~converted.ok
      \* group.suppression = hands - 1, group being undefined
      THEN Throw("TypeError", "")
      ELSE Validate(that, converted.groups, hands, minimal.period, maximumLength)

\* cardinality /= period, for a period that divides the cardinality
Quotient_Unsigned(cardinality, period) == cardinality \div Abs(period)

Quotient(cardinality, period) == Sign(period) * (cardinality \div Abs(period))

\* The return of a period-0 siteswap: this.valid = false; this.period = 0.
PeriodZero_NoPeriod(this) ==
  [this EXCEPT !.valid = FALSE, !.present = @ \cup {"valid"}]

PeriodZero(this) ==
  [this EXCEPT !.valid = FALSE, !.period = Rational(0, 1),
               !.present = @ \cup {"valid", "period"}]

\* The test for '-' that finds none.
ContainsMinus_Never(pattern) == FALSE

\* /-/.test(pattern)
ContainsMinus(pattern) == \E i \in 1..Len(pattern) : pattern[i] = "-"

\* The constructor on a pattern that matches the grammar.
Analyse(this, pattern, allowTheoreticalPatterns, maximumLength) ==
  LET parsed == ParseGroups(pattern, 1, 0)
      error == DecompositionError(parsed, allowTheoreticalPatterns)
      period == AccumulatedPeriod(parsed)
      cardinality == TotalMass(parsed)
      hands == EffectiveHands(HandsOf(parsed))
      that == [this EXCEPT !.hands = HandsOf(parsed),
                           !.present = @ \cup {"hands"}]
  IN  IF ~allowTheoreticalPatterns /\ ContainsMinus(pattern)
      THEN Throw("SiteswapError", "TheoreticalDisallowed")
      ELSE IF error # ""
      THEN Throw("SiteswapError", error)
      ELSE IF OffsetExceedsHands(parsed, hands)
      THEN Throw("SiteswapError", "OffsetExceedsHands")
      ELSE IF period = 0
      THEN PeriodZero(that)
      ELSE IF cardinality % Abs(period) # 0
      THEN [that EXCEPT !.valid = FALSE, !.present = @ \cup {"valid"}]
      ELSE Normalise([that EXCEPT
                        !.cardinality = Quotient(cardinality, period),
                        !.present = @ \cup {"cardinality"}],
                     parsed, hands, period, maximumLength)

\* The constructor with the test for '-' moved before the test of the
\* grammar.
Siteswap_GateFirst(string, opts) ==
  LET pattern == Preprocess(string)
      this == [Blank EXCEPT !.pattern = pattern, !.present = {"pattern"}]
  IN  IF pattern = <<>>
      THEN [this EXCEPT !.valid = FALSE, !.pattern = Epsilon,
                        !.period = Rational(0, 1),
                        !.present = @ \cup {"valid", "period"}]
      ELSE IF ~opts.allowTheoreticalPatterns /\ ContainsMinus(pattern)
      THEN Throw("SiteswapError", "TheoreticalDisallowed")
      ELSE IF MatchesPattern(pattern)
      THEN Analyse(this, pattern, opts.allowTheoreticalPatterns, opts.maximumLength)
      ELSE Throw("SiteswapError", "SyntacticallyInvalid")

\* new Siteswap(pattern, { allowTheoreticalPatterns, maximumLength })
Siteswap(string, opts) ==
  LET pattern == Preprocess(string)
      this == [Blank EXCEPT !.pattern = pattern, !.present = {"pattern"}]
  IN  IF pattern = <<>>
      THEN [this EXCEPT !.valid = FALSE, !.pattern = Epsilon,
                        !.period = Rational(0, 1),
                        !.present = @ \cup {"valid", "period"}]
      ELSE IF MatchesPattern(pattern)
      THEN Analyse(this, pattern, opts.allowTheoreticalPatterns, opts.maximumLength)
      ELSE Throw("SiteswapError", "SyntacticallyInvalid")

\* The default options.
DefaultMaximumLength == 100

DefaultOptions ==
  [allowTheoreticalPatterns |-> FALSE, maximumLength |-> DefaultMaximumLength]

(***************************************************************************)
(* The state machine: a caller types a pattern, key by key, and then       *)
(* constructs the Siteswap for it with its options.  A specification is    *)
(* the machine with one keyboard (the strings a key press appends) and one *)
(* set of options.                                                         *)
(***************************************************************************)
\* outcome before the constructor has run.
Pending == [Blank EXCEPT !.kind = "Pending"]

\* A maximumLength smaller than the default, to reach the limit with short
\* patterns.
SmallMaximumLength == 4

AllOptions ==
  [allowTheoreticalPatterns : BOOLEAN,
   maximumLength : {SmallMaximumLength, DefaultMaximumLength}]

\* The digits of the vanilla patterns of the model.
VanillaKeys == {<<"0">>, <<"1">>, <<"4">>, <<"5">>, <<"7">>}

InitWith(optionSet) ==
  /\ input = <<>>
  /\ typed = 0
  /\ options \in optionSet
  /\ outcome = Pending

\* The caller appends one key to the pattern.
Type(keys, most) ==
  /\ outcome = Pending
  /\ typed < most
  /\ \E key \in keys : input' = input \o key
  /\ typed' = typed + 1
  /\ UNCHANGED <<options, outcome>>

\* new Siteswap(input, options)
Construct ==
  /\ outcome = Pending
  /\ outcome' = Siteswap(input, options)
  /\ UNCHANGED <<input, typed, options>>

Init == InitWith({DefaultOptions})

Next == Type(VanillaKeys, MaxKeys) \/ Construct

\* Vanilla patterns under the default options.
Spec == Init /\ [][Next]_vars

\* Keys for chains, multiplexes, tuples, suppression and theoretical
\* patterns.
SyncKeys ==
  {<<"1">>, <<"4">>, <<"0", "x">>, <<"[", "4", "1", "]">>,
   <<"(", "4", ")">>, <<"(", "4", "x", ",", "4", ")">>,
   <<"(", "1", "x", "x", ",", "1", "x", "x", ",", "1", "x", "x", ")">>,
   <<"!">>, <<"^", "2">>, <<"^", "0">>, <<"^", "-", "1">>,
   <<"{", "-", "1", "0", "}">>}

InitSync == InitWith(AllOptions)

NextSync == Type(SyncKeys, MaxSyncKeys) \/ Construct

\* Chains, multiplexes and tuples under every option.
SpecSync == InitSync /\ [][NextSync]_vars

\* Single characters: values, a cross, a sign, braces, whitespace, and
\* letters that are neither values nor crosses.
CharKeys ==
  {<<"4">>, <<"a">>, <<"p">>, <<"z">>, <<"x">>, <<"-">>, <<"{">>, <<"}">>,
   <<" ">>}

InitChars == InitWith(AllOptions)

NextChars == Type(CharKeys, MaxCharKeys) \/ Construct

\* Strings of any characters under every option.
SpecChars == InitChars /\ [][NextChars]_vars

\* Upper-case and lower-case letters, whitespace and a tuple written in
\* both cases.
CaseKeys ==
  {<<"4">>, <<"A">>, <<"a">>, <<"X">>, <<" ">>, <<"\t">>,
   <<"(", "4", "X", ",", "4", "x", ")">>}

InitCase == InitWith(AllOptions)

NextCase == Type(CaseKeys, MaxCharKeys) \/ Construct

\* Patterns that preprocessing changes, under every option.
SpecCase == InitCase /\ [][NextCase]_vars

\* The longest pattern of tuples and implicit actions, in keys.
MaxHandKeys == 4

\* Implicit actions and tuples for two hands: the cascade written hand by
\* hand, synchronous throws with and without crosses, a negative value.
HandKeys ==
  {<<"3">>, <<"1">>, <<"(", "3", ",", "0", ")", "!">>,
   <<"(", "0", ",", "3", ")", "!">>, <<"(", "4", ",", "4", ")">>,
   <<"(", "4", "x", ",", "2", "x", ")">>, <<"{", "-", "3", "}">>}

InitHands == InitWith(AllOptions)

NextHands == Type(HandKeys, MaxHandKeys) \/ Construct

\* Patterns that mix implicit actions and tuples, under every option.
SpecHands == InitHands /\ [][NextHands]_vars

\* The longest pattern around a multiplex, in keys.
MaxMultiplexKeys == 5

\* A multiplex as the first action of a two-hand tuple: the brackets, with
\* an event or a multiplex as the second action, and events of equal and
\* of different values, with and without a cross, one of them with
\* quantity 0.
MultiplexKeys ==
  {<<"(", "[">>, <<"]", ",", "4", ")">>,
   <<"]", ",", "[", "4", "x", "4", "]", ")">>, <<"4">>, <<"4", "x">>,
   <<"4", "x", "^", "0">>, <<"2">>, <<"0">>}

InitMultiplex == InitWith({DefaultOptions})

NextMultiplex == Type(MultiplexKeys, MaxMultiplexKeys) \/ Construct

\* Patterns with one multiplex, under the default options.
SpecMultiplex == InitMultiplex /\ [][NextMultiplex]_vars

(***************************************************************************)
(* C1.  Constructing a Siteswap either returns a Result or raises a        *)
(* SiteswapError: no other failure (a TypeError, a RangeError) occurs.     *)
(***************************************************************************)
C1_ResultOrSiteswapError ==
  outcome.kind \in {"Pending", "Result", "SiteswapError"}

(***************************************************************************)
(* C2.  A one-handed vanilla pattern of L >= 1 values, analysed with the   *)
(* default options, returns a Result that is valid exactly when            *)
(* i -> (i + v_i) mod L is a permutation of the beats 0 .. L - 1.          *)
(***************************************************************************)
\* input is a non-empty string of alphanumeric values.
IsVanilla(s) == s # <<>> /\ \A i \in 1..Len(s) : IsAlphanumeric(s[i])

\* No two throws of the vanilla pattern s land on the same beat.
IsPermutation(s) ==
  \A i, j \in 1..Len(s) :
    (i # j) => ((i + DigitValue(s[i])) % Len(s) # (j + DigitValue(s[j])) % Len(s))

C2_VanillaValidIffPermutation ==
  (outcome.kind # "Pending" /\ IsVanilla(input) /\ options = DefaultOptions)
    => /\ outcome.kind = "Result"
       /\ "valid" \in outcome.present
       /\ outcome.valid = IsPermutation(input)

(***************************************************************************)
(* C3.  For a valid pattern P and k >= 1, P written k times in a row has   *)
(* the same period, cardinality, ground and normalised as P.               *)
(***************************************************************************)
\* Two outcomes are Results that agree on what a valid Result reports.
SameAnalysis(r, q) ==
  /\ r.kind = "Result" /\ q.kind = "Result"
  /\ r.valid = q.valid
  /\ r.present \ {"pattern"} = q.present \ {"pattern"}
  /\ r.period = q.period
  /\ r.cardinality = q.cardinality
  /\ r.ground = q.ground
  /\ r.normalised = q.normalised

C3_RepetitionKeepsResult ==
  (outcome.kind = "Result" /\ outcome.valid)
    => \A k \in 1..MaxRepeat :
         SameAnalysis(Siteswap(Repeat(input, k), options), outcome)

(***************************************************************************)
(* C4.  For a valid Result r, analysing r.normalised with the same options *)
(* returns a valid Result whose normalised string equals r.normalised.     *)
(***************************************************************************)
C4_NormalisedIsAFixedPoint ==
  (outcome.kind = "Result" /\ outcome.valid)
    => LET again == Siteswap(outcome.normalised, options)
       IN  /\ again.kind = "Result"
           /\ again.valid
           /\ again.normalised = outcome.normalised

(***************************************************************************)
(* C5.  A pattern containing a group chain X^n, n >= 1, and the same       *)
(* pattern with X written n times in a row produce the same outcome: the   *)
(* same error, or the same valid, period, cardinality, ground and          *)
(* normalised.                                                             *)
(***************************************************************************)
RECURSIVE ExpandGroups(_, _)
\* The pattern s from index i on, every group chain X^n with n >= 1
\* written as n copies of X.
ExpandGroups(s, i) ==
  LET g == GroupEnd(s, i)
      e == GroupsEnd(s, i)
      n == ChainQuantity(s, g)
  IN  IF e = 0 THEN <<>>
      ELSE (IF e > g /\ n >= 1
            THEN Repeat(SubSeq(s, i, g - 1), n)
            ELSE SubSeq(s, i, e - 1))
           \o ExpandGroups(s, e)

\* Some group chain of s has an exponent n >= 1.
HasPositiveExponent(s) == MatchesPattern(s) /\ ExpandGroups(s, 1) # s

\* Two outcomes are the same error or agree on every reported property but
\* the pattern.
SameOutcome(r, q) ==
  /\ r.kind = q.kind /\ r.error = q.error
  /\ r.present = q.present
  /\ r.valid = q.valid /\ r.period = q.period
  /\ r.cardinality = q.cardinality /\ r.hands = q.hands
  /\ r.ground = q.ground /\ r.normalised = q.normalised

C5_ExponentIsRepetition ==
  (outcome.kind # "Pending" /\ HasPositiveExponent(input))
    => SameOutcome(Siteswap(ExpandGroups(input, 1), options), outcome)

(***************************************************************************)
(* C6.  As claimed: for every valid Result, cardinality multiplied by the  *)
(* reported period equals the total signed throw mass of the original      *)
(* pattern, the sum of value x event.quantity x group.quantity.            *)
(***************************************************************************)
\* The parse tree of the pattern typed.
Parsed == ParseGroups(Preprocess(input), 1, 0)

C6_CardinalityTimesReportedPeriod ==
  (outcome.kind = "Result" /\ outcome.valid)
    => /\ IsInteger(outcome.period)
       /\ outcome.cardinality * outcome.period.num = TotalMass(Parsed)

(***************************************************************************)
(* C6, amended.  For every valid Result, cardinality multiplied by the     *)
(* period accumulated over the original pattern (the sum over its groups   *)
(* of quantity x (number of actions - suppression), before the reduction   *)
(* to the minimal period) equals the total signed throw mass.              *)
(***************************************************************************)
C6_CardinalityTimesAccumulatedPeriod ==
  (outcome.kind = "Result" /\ outcome.valid)
    => outcome.cardinality * AccumulatedPeriod(Parsed) = TotalMass(Parsed)

\* A valid Result of a pattern with throws whose reported period is not the
\* accumulated one.
C6_Witness ==
  /\ outcome.kind = "Result" /\ outcome.valid
  /\ TotalMass(Parsed) # 0
  /\ outcome.period # Rational(AccumulatedPeriod(Parsed), 1)

(***************************************************************************)
(* C7.  In every returned Result the period, when present, is an integer   *)
(* (the cardinality of the model is an integer by construction: it is set  *)
(* only when the accumulated period divides the accumulated mass).         *)
(***************************************************************************)
C7_PeriodIsAnInteger ==
  (outcome.kind = "Result" /\ "period" \in outcome.present)
    => IsInteger(outcome.period)

(***************************************************************************)
(* C8.  A pattern that passes the error checks and whose accumulated       *)
(* period is 0 returns valid = false with period = 0; and no Result with   *)
(* valid = true has period 0.                                              *)
(***************************************************************************)
\* The pattern typed is not empty, matches the grammar, and none of the
\* checks that precede the period test throws on it.
PassesErrorChecks ==
  LET pattern == Preprocess(input)
      allow == options.allowTheoreticalPatterns
      groups == Parsed
      hands == EffectiveHands(HandsOf(groups))
  IN  /\ pattern # <<>>
      /\ MatchesPattern(pattern)
      /\ allow \/ ~ContainsMinus(pattern)
      /\ \A k \in 1..Len(groups) :
           /\ allow \/ ~HasCrossingZero(groups[k])
           /\ groups[k].suppression < Len(groups[k].actions)
           /\ \A j \in 1..(k - 1) :
                (~groups[j].implicit /\ ~groups[k].implicit)
                  => Len(groups[j].actions) = Len(groups[k].actions)
           /\ \A a \in 1..Len(groups[k].actions) :
                \A e \in 1..Len(groups[k].actions[a]) :
                  groups[k].actions[a][e].offset < hands

C8_PeriodZeroIsInvalid ==
  /\ (outcome.kind # "Pending" /\ PassesErrorChecks
        /\ AccumulatedPeriod(Parsed) = 0)
       => /\ outcome.kind = "Result"
          /\ {"valid", "period"} \subseteq outcome.present
          /\ outcome.valid = FALSE
          /\ outcome.period = Rational(0, 1)
  /\ (outcome.kind = "Result" /\ outcome.valid)
       => /\ "period" \in outcome.present
          /\ outcome.period.num # 0

\* 11^-1 analysed with theoretical patterns allowed.
C8_Witness ==
  /\ outcome.kind = "Result"
  /\ input = <<"1", "1", "^", "-", "1">>
  /\ options.allowTheoreticalPatterns
  /\ AccumulatedPeriod(Parsed) = 0

(***************************************************************************)
(* C9.  As claimed: with allowTheoreticalPatterns = false, every pattern   *)
(* that matches the grammar and contains a '-', or an event with value 0   *)
(* and offset > 0, raises the SiteswapError TheoreticalDisallowed; with    *)
(* allowTheoreticalPatterns = true neither condition raises.               *)
(***************************************************************************)
\* The pattern typed matches the grammar and holds a theoretical construct.
IsTheoretical ==
  LET pattern == Preprocess(input)
      groups == Parsed
  IN  /\ pattern # <<>>
      /\ MatchesPattern(pattern)
      /\ \/ ContainsMinus(pattern)
         \/ \E k \in 1..Len(groups) : HasCrossingZero(groups[k])

C9_TheoreticalAlwaysDisallowed ==
  outcome.kind # "Pending"
    => /\ (~options.allowTheoreticalPatterns /\ IsTheoretical)
            => /\ outcome.kind = "SiteswapError"
               /\ outcome.error = "TheoreticalDisallowed"
       /\ options.allowTheoreticalPatterns
            => outcome.error # "TheoreticalDisallowed"

(***************************************************************************)
(* C9, amended.  With allowTheoreticalPatterns = false, every pattern that *)
(* matches the grammar and contains a '-', or an event with value 0 and    *)
(* offset > 0, raises a SiteswapError and returns no Result.  The error is *)
(* TheoreticalDisallowed when the pattern contains a '-'; otherwise it is  *)
(* TheoreticalDisallowed unless a group before the first group that holds  *)
(* such an event has an invalid suppression or a hand count that differs   *)
(* from an earlier tuple's, and then it is InvalidSuppression or           *)
(* InconsistentHandCount.  With allowTheoreticalPatterns = true the error  *)
(* TheoreticalDisallowed is never raised.                                  *)
(***************************************************************************)
\* Some group before group k has an invalid suppression or the wrong number
\* of actions.
FaultBefore(groups, k) ==
  \E j \in 1..(k - 1) :
    \/ groups[j].suppression >= Len(groups[j].actions)
    \/ \E i \in 1..(j - 1) :
         /\ ~groups[i].implicit /\ ~groups[j].implicit
         /\ Len(groups[i].actions) # Len(groups[j].actions)

C9_TheoreticalDisallowedUnlessEarlierFault ==
  outcome.kind # "Pending"
    => /\ (~options.allowTheoreticalPatterns /\ IsTheoretical)
            => /\ outcome.kind = "SiteswapError"
               /\ outcome.present = {}
               /\ LET groups == Parsed
                      crossing == {k \in 1..Len(groups) :
                                     HasCrossingZero(groups[k])}
                      first == CHOOSE k \in crossing :
                                 \A j \in crossing : k <= j
                  IN  IF ContainsMinus(Preprocess(input))
                        \/ ~FaultBefore(groups, first)
                      THEN outcome.error = "TheoreticalDisallowed"
                      ELSE outcome.error \in {"InvalidSuppression",
                                              "InconsistentHandCount"}
       /\ options.allowTheoreticalPatterns
            => outcome.error # "TheoreticalDisallowed"

\* A crossing zero behind a group with an invalid suppression, refused
\* without theoretical patterns.
C9_Witness ==
  /\ outcome.kind = "SiteswapError"
  /\ ~options.allowTheoreticalPatterns
  /\ IsTheoretical
  /\ ~ContainsMinus(Preprocess(input))
  /\ FaultBefore(Parsed, Len(Parsed))

(***************************************************************************)
(* C10.  Every input that is not empty after whitespace removal and        *)
(* lowercasing and does not match the grammar raises SyntacticallyInvalid, *)
(* under every option and even when it contains a '-': in particular '-'   *)
(* alone, a braced literal that contains a letter, and any string with a   *)
(* letter p..z other than x.                                               *)
(***************************************************************************)
\* The letters after "o", but for the cross.
ModifierLetters ==
  {"p", "q", "r", "s", "t", "u", "v", "w", "y", "z"}

\* s has an opening brace with a letter behind it before any closing brace.
HasBracedLetter(s) ==
  \E i, j \in 1..Len(s) :
    /\ i < j
    /\ s[i] = "{"
    /\ s[j] \in ModifierLetters \cup {"x"} \/ (IsAlphanumeric(s[j]) /\ ~IsDecimal(s[j]))
    /\ \A m \in (i + 1)..(j - 1) : s[m] # "}"

C10_UngrammaticalIsSyntacticallyInvalid ==
  LET pattern == Preprocess(input)
  IN  (/\ outcome.kind # "Pending"
       /\ pattern # <<>>
       /\ \/ ~MatchesPattern(pattern)
          \/ pattern = <<"-">>
          \/ HasBracedLetter(pattern)
          \/ \E i \in 1..Len(pattern) : pattern[i] \in ModifierLetters)
        => /\ outcome.kind = "SiteswapError"
           /\ outcome.error = "SyntacticallyInvalid"
           /\ outcome.present = {}

\* '-' alone, with whitespace around it, refused without theoretical
\* patterns.
C10_Witness ==
  /\ outcome.kind = "SiteswapError"
  /\ ~options.allowTheoreticalPatterns
  /\ Len(input) > 1
  /\ Preprocess(input) = <<"-">>

(***************************************************************************)
(* C11.  As claimed: hands is null exactly when the pattern contains no    *)
(* explicit tuple (the pattern is then validated with one hand); otherwise *)
(* hands is the number of actions of the first explicit tuple, and any     *)
(* later explicit tuple with a different number of actions raises          *)
(* InconsistentHandCount.                                                  *)
(***************************************************************************)
\* The pattern typed is not empty and matches the grammar.
IsGrammatical ==
  Preprocess(input) # <<>> /\ MatchesPattern(Preprocess(input))

\* The indices of the explicit tuples of groups.
Tuples(groups) == {k \in 1..Len(groups) : ~groups[k].implicit}

\* The least index of a non-empty set of indices.
First(indices) == CHOOSE k \in indices : \A j \in indices : k <= j

\* The tuples of groups whose number of actions is not the first tuple's.
Mismatches(groups) ==
  {j \in Tuples(groups) :
     Len(groups[j].actions) # Len(groups[First(Tuples(groups))].actions)}

\* hands of a Result follows the tuples of groups, and its windows are
\* those of one hand when there is no tuple.
HandsFollowTuples(groups) ==
  (outcome.kind = "Result" /\ "hands" \in outcome.present)
    => /\ (outcome.hands = <<>>) <=> (Tuples(groups) = {})
       /\ Tuples(groups) # {}
            => outcome.hands = <<Len(groups[First(Tuples(groups))].actions)>>
       /\ (Tuples(groups) = {} /\ outcome.ranges # <<>>)
            => DOMAIN outcome.ranges = {0}

C11_MismatchIsInconsistentHandCount ==
  (outcome.kind # "Pending" /\ IsGrammatical)
    => LET groups == Parsed
       IN  /\ HandsFollowTuples(groups)
           /\ Mismatches(groups) # {}
                => /\ outcome.kind = "SiteswapError"
                   /\ outcome.error = "InconsistentHandCount"

(***************************************************************************)
(* C11, amended.  hands is null exactly when the pattern contains no       *)
(* explicit tuple (the pattern is then validated with one hand); otherwise *)
(* hands is the number of actions of the first explicit tuple, and a       *)
(* pattern with a later explicit tuple of a different number of actions    *)
(* raises a SiteswapError: InconsistentHandCount, unless the theoretical   *)
(* gate or the suppression check fails first (the pattern contains a '-'   *)
(* without theoretical patterns allowed, or a group up to and including    *)
(* the first such tuple has a disallowed crossing zero or an invalid       *)
(* suppression), and then TheoreticalDisallowed or InvalidSuppression.     *)
(***************************************************************************)
\* A check that precedes the hand-count check of group j fails.
FailsBeforeHandCount(groups, j) ==
  \/ ~options.allowTheoreticalPatterns /\ ContainsMinus(Preprocess(input))
  \/ \E k \in 1..j :
       \/ ~options.allowTheoreticalPatterns /\ HasCrossingZero(groups[k])
       \/ groups[k].suppression >= Len(groups[k].actions)

C11_MismatchIsAnError ==
  (outcome.kind # "Pending" /\ IsGrammatical)
    => LET groups == Parsed
       IN  /\ HandsFollowTuples(groups)
           /\ Mismatches(groups) # {}
                => /\ outcome.kind = "SiteswapError"
                   /\ IF FailsBeforeHandCount(groups, First(Mismatches(groups)))
                      THEN outcome.error \in {"TheoreticalDisallowed",
                                              "InvalidSuppression"}
                      ELSE outcome.error = "InconsistentHandCount"

\* A tuple of one action behind a tuple of two, refused for its hand count.
C11_Witness ==
  /\ outcome.kind = "SiteswapError"
  /\ outcome.error = "InconsistentHandCount"
  /\ IsGrammatical
  /\ Mismatches(Parsed) # {}

(***************************************************************************)
(* C12.  A pattern that passes the grammar, theoretical, suppression and   *)
(* hand-count checks and contains an event whose offset is greater than or *)
(* equal to the effective hand count raises OffsetExceedsHands, even if    *)
(* its period is 0; in every Result for a non-empty pattern every event    *)
(* has an offset below the effective hand count.                           *)
(***************************************************************************)
\* The number of hands the groups are validated with.
HandCount(groups) ==
  IF Tuples(groups) = {} THEN 1
  ELSE Len(groups[First(Tuples(groups))].actions)

\* Some event of groups has n crosses or more.
HasOffset(groups, n) ==
  \E k \in 1..Len(groups) : \E a \in 1..Len(groups[k].actions) :
    \E e \in 1..Len(groups[k].actions[a]) :
      groups[k].actions[a][e].offset >= n

\* No check of the decomposition loop fails on groups.
PassesLoopChecks(groups) ==
  /\ options.allowTheoreticalPatterns \/ ~ContainsMinus(Preprocess(input))
  /\ \A k \in 1..Len(groups) :
       /\ options.allowTheoreticalPatterns \/ ~HasCrossingZero(groups[k])
       /\ groups[k].suppression < Len(groups[k].actions)
  /\ Mismatches(groups) = {}

C12_OffsetBelowHandCount ==
  (outcome.kind # "Pending" /\ IsGrammatical)
    => LET groups == Parsed
       IN  /\ (PassesLoopChecks(groups)
                 /\ HasOffset(groups, HandCount(groups)))
                => /\ outcome.kind = "SiteswapError"
                   /\ outcome.error = "OffsetExceedsHands"
           /\ outcome.kind = "Result"
                => ~HasOffset(groups, HandCount(groups))

\* A crossing throw of one hand in a pattern of period 0.
C12_Witness ==
  /\ outcome.kind = "SiteswapError"
  /\ outcome.error = "OffsetExceedsHands"
  /\ IsGrammatical
  /\ AccumulatedPeriod(Parsed) = 0

(***************************************************************************)
(* C13.  As claimed: a tuple followed by s suppression marks with s >= the *)
(* number of its actions raises InvalidSuppression; every accepted group   *)
(* has 0 <= suppression < number of actions and contributes quantity x     *)
(* (number of actions - suppression) beats to the period.                  *)
(***************************************************************************)
\* The groups whose suppression is not below their number of actions.
Oversuppressed(groups) ==
  {k \in 1..Len(groups) : groups[k].suppression >= Len(groups[k].actions)}

\* The beats of the groups: quantity x (number of actions - suppression).
Beats(groups) ==
  SumSeq([k \in 1..Len(groups) |->
            groups[k].quantity
              * (Len(groups[k].actions) - groups[k].suppression)])

\* What a Result shows of the suppression of its groups.
AcceptedGroupsCount(groups) ==
  outcome.kind = "Result"
    => /\ \A k \in 1..Len(groups) :
            /\ 0 <= groups[k].suppression
            /\ groups[k].suppression < Len(groups[k].actions)
       /\ (Beats(groups) = 0)
            <=> /\ ~outcome.valid
                /\ "period" \in outcome.present
                /\ outcome.period = Rational(0, 1)
       /\ "cardinality" \in outcome.present
            => outcome.cardinality * Beats(groups) = TotalMass(groups)
       /\ (outcome.valid /\ Len(groups) = 1)
            => outcome.period
                 = Rational(Sign(groups[1].quantity)
                              * (Len(groups[1].actions)
                                   - groups[1].suppression), 1)

C13_OversuppressionIsInvalidSuppression ==
  (outcome.kind # "Pending" /\ IsGrammatical)
    => LET groups == Parsed
       IN  /\ AcceptedGroupsCount(groups)
           /\ Oversuppressed(groups) # {}
                => /\ outcome.kind = "SiteswapError"
                   /\ outcome.error = "InvalidSuppression"

(***************************************************************************)
(* C13, amended.  A pattern with a tuple followed by s suppression marks,  *)
(* s >= the number of its actions, raises a SiteswapError:                 *)
(* InvalidSuppression, unless an earlier check fails first (the pattern    *)
(* contains a '-' without theoretical patterns allowed, a group up to and  *)
(* including the first such tuple has a disallowed crossing zero, or a     *)
(* tuple before it has the wrong number of actions), and then              *)
(* TheoreticalDisallowed or InconsistentHandCount.  Every accepted group   *)
(* has 0 <= suppression < number of actions and contributes quantity x     *)
(* (number of actions - suppression) beats to the period.                  *)
(***************************************************************************)
\* A check that precedes the suppression check of group j fails.
FailsBeforeSuppression(groups, j) ==
  \/ ~options.allowTheoreticalPatterns /\ ContainsMinus(Preprocess(input))
  \/ \E k \in 1..j :
       ~options.allowTheoreticalPatterns /\ HasCrossingZero(groups[k])
  \/ \E k \in Mismatches(groups) : k < j

C13_OversuppressionIsAnError ==
  (outcome.kind # "Pending" /\ IsGrammatical)
    => LET groups == Parsed
       IN  /\ AcceptedGroupsCount(groups)
           /\ Oversuppressed(groups) # {}
                => /\ outcome.kind = "SiteswapError"
                   /\ IF FailsBeforeSuppression(groups,
                                                First(Oversuppressed(groups)))
                      THEN outcome.error \in {"TheoreticalDisallowed",
                                              "InconsistentHandCount"}
                      ELSE outcome.error = "InvalidSuppression"

\* A valid tuple of three actions, suppressed twice, that takes one beat.
C13_Witness ==
  /\ outcome.kind = "Result"
  /\ outcome.valid
  /\ IsGrammatical
  /\ Len(Parsed) = 1
  /\ Parsed[1].suppression = 2
  /\ outcome.period = Rational(1, 1)

(***************************************************************************)
(* C14.  StateRangeTooLarge is raised exactly when the pattern reaches     *)
(* range inference and, on the normalised groups, some hand's window has   *)
(* max - min > maximumLength; a window of exactly maximumLength is         *)
(* accepted.  No delta or state array of a Result has more than            *)
(* maximumLength + 1 entries.                                              *)
(***************************************************************************)
\* The groups handed to range inference: actions normalised, repetitions
\* collapsed, period reduced, implicit groups converted.
NormalisedGroups(groups) ==
  ConvertImplicit(
    reducePeriod(reduceSequence(NormaliseActions(groups), "groups"),
                 AccumulatedPeriod(groups)).groups,
    ImplicitOf(groups), HandCount(groups))

\* The pattern passes every check that precedes range inference.
ReachesRangeInference(groups) ==
  /\ PassesLoopChecks(groups)
  /\ ~HasOffset(groups, HandCount(groups))
  /\ AccumulatedPeriod(groups) # 0
  /\ TotalMass(groups) % Abs(AccumulatedPeriod(groups)) = 0
  /\ NormalisedGroups(groups).ok

\* Some hand's window on the normalised groups is wider than maximumLength.
WindowExceeds(groups, maximumLength) ==
  LET Wide(ranges) ==
        \E hand \in DOMAIN ranges :
          /\ ~ranges[hand].empty
          /\ ranges[hand].max - ranges[hand].min >= maximumLength + 1
  IN  Wide(Ranges(NormalisedGroups(groups).groups, HandCount(groups)))

C14_StateRangeTooLargeIffWindowExceeds ==
  outcome.kind # "Pending"
    => /\ (outcome.kind = "SiteswapError"
             /\ outcome.error = "StateRangeTooLarge")
            <=> /\ IsGrammatical
                /\ LET Exceeds(groups) ==
                         /\ ReachesRangeInference(groups)
                         /\ WindowExceeds(groups, options.maximumLength)
                   IN  Exceeds(Parsed)
       /\ (outcome.kind = "Result" /\ outcome.deltas # <<>>)
            => \A hand \in DOMAIN outcome.deltas :
                 /\ outcome.deltas[hand].length <= options.maximumLength + 1
                 /\ outcome.states[hand].length <= options.maximumLength + 1
                 /\ outcome.ranges[hand].max - outcome.ranges[hand].min
                      <= options.maximumLength

\* A Result whose window is exactly maximumLength wide.
C14_Witness ==
  /\ outcome.kind = "Result"
  /\ outcome.ranges # <<>>
  /\ \E hand \in DOMAIN outcome.ranges :
       /\ ~outcome.ranges[hand].empty
       /\ outcome.ranges[hand].max - outcome.ranges[hand].min
            = options.maximumLength
       /\ outcome.deltas[hand].length = options.maximumLength + 1

(***************************************************************************)
(* C15.  Every Result carries a hands field that is an integer or null,    *)
(* the Results of the empty pattern, of the period-0 patterns and of the   *)
(* patterns with a non-integer cardinality included.                       *)
(***************************************************************************)
C15_ResultCarriesHands ==
  outcome.kind = "Result"
    => /\ "hands" \in outcome.present
       /\ \/ outcome.hands = <<>>
          \/ Len(outcome.hands) = 1 /\ outcome.hands[1] \in Int

(***************************************************************************)
(* C16.  In a Result, cardinality, normalised, ground and excited are set  *)
(* exactly when valid is true; period is set exactly when valid is true or *)
(* the pattern is empty or has period 0, and is 0 in these two cases.  A   *)
(* Result that is invalid for another reason carries none of the five.     *)
(***************************************************************************)
\* The pattern is empty, or is grammatical and its beats sum to 0.
EmptyOrPeriodZero ==
  \/ Preprocess(input) = <<>>
  \/ IsGrammatical /\ AccumulatedPeriod(Parsed) = 0

C16_FieldPresenceFollowsValidity ==
  outcome.kind = "Result"
    => /\ \A field \in {"cardinality", "normalised", "ground", "excited"} :
            field \in outcome.present <=> outcome.valid
       /\ "period" \in outcome.present
            <=> (outcome.valid \/ EmptyOrPeriodZero)
       /\ (~outcome.valid /\ "period" \in outcome.present)
            => outcome.period = Rational(0, 1)

(***************************************************************************)
(* C17.  An input that is empty once its whitespace is removed gives,      *)
(* under any options, a Result with pattern "ε", valid = false and         *)
(* period = 0.  The pattern of every other Result is the input without its *)
(* whitespace and with its letters in lower case.                          *)
(***************************************************************************)
\* The upper-case letters of the model's alphabets with their lower case.
UpperLower ==
  {<<"A", "a">>, <<"B", "b">>, <<"O", "o">>, <<"P", "p">>, <<"X", "x">>}

\* The characters of s that are not whitespace, in order.
WithoutWhitespace(s) ==
  LET Visible(c) == c \notin {" ", "\t", "\n"}
  IN  SelectSeq(s, Visible)

\* t is s with every upper-case letter replaced by its lower case.
IsLowerCaseOf(t, s) ==
  /\ Len(t) = Len(s)
  /\ \A i \in 1..Len(s) :
       IF \E pair \in UpperLower : pair[1] = s[i]
       THEN <<s[i], t[i]>> \in UpperLower
       ELSE t[i] = s[i]

C17_EmptyIsEpsilonAndPatternIsPreprocessed ==
  outcome.kind # "Pending"
    => IF WithoutWhitespace(input) = <<>>
       THEN /\ outcome.kind = "Result"
            /\ {"pattern", "valid", "period"} \subseteq outcome.present
            /\ outcome.pattern = Epsilon
            /\ ~outcome.valid
            /\ outcome.period = Rational(0, 1)
       ELSE outcome.kind = "Result"
              => /\ "pattern" \in outcome.present
                 /\ IsLowerCaseOf(outcome.pattern, WithoutWhitespace(input))

\* A Result for an input with whitespace and an upper-case letter.
C17_Witness ==
  /\ outcome.kind = "Result"
  /\ outcome.pattern # Epsilon
  /\ \E i \in 1..Len(input) : input[i] \in {" ", "\t"}
  /\ \E i \in 1..Len(input) : \E pair \in UpperLower : pair[1] = input[i]

(***************************************************************************)
(* C18.  A valid Result with cardinality c and H effective hands has       *)
(* ground = true exactly when, for every hand h, the beats h + 1,          *)
(* h + H + 1, ... up to c (for c > 0) or -h, -h - H, ... above c (for      *)
(* c < 0) lie in the window of h and hold sign(c) in its solved state, and *)
(* every other beat of the window holds 0; excited is the negation of      *)
(* ground.                                                                 *)
(***************************************************************************)
\* The beats of hand h in the ground state of cardinality c with H hands:
\* the |c| beats next to the origin, dealt to the hands in turn.
ExpectedGroundBeats(h, c, H) ==
  IF c > 0 THEN {beat \in 1..c : (beat - 1) % H = h}
  ELSE {beat \in (c + 1)..0 : (0 - beat) % H = h}

\* The solved state of hand h is the ground state.
InGroundState(state, range, h, c, H) ==
  /\ \A beat \in ExpectedGroundBeats(h, c, H) :
       range.min <= beat /\ beat <= range.max
  /\ \A beat \in range.min..range.max :
       /\ ~state.at[beat - range.min].nan
       /\ state.at[beat - range.min].v
            = IF beat \in ExpectedGroundBeats(h, c, H) THEN Sign(c) ELSE 0

C18_GroundIffGroundState ==
  (outcome.kind = "Result" /\ outcome.valid)
    => /\ {"ground", "excited", "cardinality"} \subseteq outcome.present
       /\ outcome.excited = ~outcome.ground
       /\ LET H == HandCount(Parsed)
          IN  /\ DOMAIN outcome.states = 0..(H - 1)
              /\ outcome.ground
                   <=> \A h \in 0..(H - 1) :
                         InGroundState(outcome.states[h], outcome.ranges[h],
                                       h, outcome.cardinality, H)

\* A ground-state Result on several hands.
C18_Witness ==
  /\ outcome.kind = "Result"
  /\ outcome.valid
  /\ outcome.ground
  /\ outcome.hands # <<>>
  /\ outcome.hands[1] >= 2
  /\ outcome.cardinality >= 3
  /\ \E k \in 1..Len(Parsed) : Parsed[k].implicit

(***************************************************************************)
(* C19.  Of a pattern that reaches normalisation, every implicit group     *)
(* left by collapsing and period reduction is handed to range inference as *)
(* a tuple of hands_effective actions with suppression hands_effective - 1 *)
(* that holds its action at position hand mod hands_effective and the      *)
(* placeholder action elsewhere, every explicit group is handed over       *)
(* unchanged, and so every group has hands_effective actions.              *)
(***************************************************************************)
\* The pattern passes every check that precedes normalisation.
ReachesNormalisation(groups) ==
  /\ PassesLoopChecks(groups)
  /\ ~HasOffset(groups, HandCount(groups))
  /\ AccumulatedPeriod(groups) # 0
  /\ TotalMass(groups) % Abs(AccumulatedPeriod(groups)) = 0

\* The groups left by collapsing and period reduction.
ReducedGroups(groups) ==
  reducePeriod(reduceSequence(NormaliseActions(groups), "groups"),
               AccumulatedPeriod(groups)).groups

\* The hand recorded for the implicit group with index idx.
RecordedHand(groups, idx) ==
  LET implicit == ImplicitOf(groups)
      j == CHOOSE i \in 1..Len(implicit) : implicit[i].index = idx
  IN  implicit[j].hand

\* group as a tuple of H actions with its own action at position hand % H.
AsTuple(group, hand, H) ==
  [group EXCEPT
     !.suppression = H - 1,
     !.actions = [a \in 1..H |->
                    IF a = (hand % H) + 1 THEN group.actions[1]
                    ELSE <<[value |-> 0, offset |-> 0, quantity |-> 1]>>]]

\* handed is reduced with its implicit groups, and only these, made tuples.
IsConversionOf(handed, reduced, groups, H) ==
  /\ Len(handed) = Len(reduced)
  /\ \A k \in 1..Len(reduced) :
       /\ handed[k] = IF reduced[k].implicit
                      THEN AsTuple(reduced[k],
                                   RecordedHand(groups, reduced[k].idx), H)
                      ELSE reduced[k]
       /\ Len(handed[k].actions) = H

C19_ImplicitGroupsBecomeTuples ==
  (outcome.kind # "Pending" /\ IsGrammatical)
    => LET Converted(groups) ==
             ReachesNormalisation(groups)
               => /\ outcome.kind # "TypeError"
                  /\ outcome.kind = "Result"
                       => IsConversionOf(outcome.groups,
                                         ReducedGroups(groups), groups,
                                         HandCount(groups))
       IN  Converted(Parsed)

(***************************************************************************)
(* C20.  In a pattern with an explicit tuple, every implicit action of the *)
(* input is thrown by the hand given by a counter that is 0 right after a  *)
(* tuple and grows by 1 per implicit action, the implicit actions before   *)
(* the first tuple continuing the count reached at the end of the pattern: *)
(* the group that the solver is handed for it holds the action at position *)
(* counter mod hands_effective.                                            *)
(***************************************************************************)
\* The greatest tuple of groups before group j, or 0.
LastTupleBefore(groups, j) ==
  LET before == {k \in Tuples(groups) : k < j}
  IN  IF before = {} THEN 0
      ELSE CHOOSE k \in before : \A other \in before : other <= k

\* The counter of the implicit group j of a pattern with a tuple.
ExpectedHand(groups, j) ==
  IF LastTupleBefore(groups, j) # 0
  THEN j - 1 - LastTupleBefore(groups, j)
  ELSE (Len(groups) - LastTupleBefore(groups, Len(groups) + 1)) + (j - 1)

\* The implicit groups of the input that collapsing merged into the k-th
\* group of collapsed: the equal groups from its own place up to the place
\* of the next group.
MergedInto(groups, collapsed, k) ==
  LET from == collapsed[k].idx + 1
      to == IF k < Len(collapsed) THEN collapsed[k + 1].idx ELSE Len(groups)
  IN  {j \in from..to :
         /\ groups[j].implicit
         /\ NormaliseActions(groups)[j].actions = collapsed[k].actions}

C20_ImplicitActionsFollowTheCounter ==
  (outcome.kind = "Result" /\ outcome.groups # <<>> /\ IsGrammatical)
    => LET Follows(groups, collapsed, H) ==
             Tuples(groups) # {}
               => \A k \in 1..Len(outcome.groups) :
                    outcome.groups[k].implicit
                      => \A j \in MergedInto(groups, collapsed, k) :
                           outcome.groups[k]
                             = AsTuple(ReducedGroups(groups)[k],
                                       ExpectedHand(groups, j), H)
       IN  Follows(Parsed,
                   reduceSequence(NormaliseActions(Parsed), "groups"),
                   HandCount(Parsed))

(***************************************************************************)
(* C21.  Delta construction visits the sites of range inference: for the   *)
(* groups of every pattern that reaches it, groups of negative quantity    *)
(* and groups that take more than one beat included, every index of a      *)
(* hand's delta array that is read or written lies in 0 .. max - min of    *)
(* the hand's window.                                                      *)
(***************************************************************************)
C21_DeltaIndicesInsideWindow ==
  (outcome.kind = "Result" /\ outcome.groups # <<>>)
    => LET Inside(groups, ranges, hands) ==
             \A w \in DeltaWrites(groups, ranges, hands) :
               /\ 0 <= w.index
               /\ w.index <= ranges[w.hand].max - ranges[w.hand].min
       IN  Inside(outcome.groups, outcome.ranges,
                  Cardinality(DOMAIN outcome.ranges))

(***************************************************************************)
(* C22.  Collapsing does not change what is validated: the delta arrays    *)
(* built from groups with quantities q >= 1 are the delta arrays built     *)
(* from the list in which every chain X^q is written as q consecutive      *)
(* copies of X with quantity 1, also when X takes more than one beat.      *)
(***************************************************************************)
RECURSIVE Unrolled(_)
\* groups with every chain X^q, q >= 1, replaced by q copies of X.
Unrolled(groups) ==
  IF groups = <<>> THEN <<>>
  ELSE [i \in 1..Head(groups).quantity |-> [Head(groups) EXCEPT !.quantity = 1]]
         \o Unrolled(Tail(groups))

C22_ChainDeltasAreRepetitionDeltas ==
  (/\ outcome.kind = "Result"
   /\ outcome.groups # <<>>
   /\ \A k \in 1..Len(outcome.groups) : outcome.groups[k].quantity >= 1)
    => LET Same(copies, hands) ==
             /\ Ranges(copies, hands) = outcome.ranges
             /\ Deltas(copies, outcome.ranges, hands) = outcome.deltas
       IN  Same(Unrolled(outcome.groups), Cardinality(DOMAIN outcome.ranges))

(***************************************************************************)
(* C23.  After the normalisation of the actions, in every action of every  *)
(* group the events are sorted by value ascending, no two adjacent events  *)
(* have the same value and offset, no event has quantity 0, and no event   *)
(* is a non-crossing zero unless it is the placeholder (value 0, offset 0, *)
(* quantity 1) that an action left empty holds alone.                      *)
(***************************************************************************)
\* events is a normalised action.
IsNormalAction(events) ==
  /\ Len(events) >= 1
  /\ \A e \in 1..(Len(events) - 1) :
       /\ events[e].value <= events[e + 1].value
       /\ ~(/\ events[e].value = events[e + 1].value
            /\ events[e].offset = events[e + 1].offset)
  /\ \A e \in 1..Len(events) : events[e].quantity # 0
  /\ (\E e \in 1..Len(events) :
        events[e].value = 0 /\ events[e].offset = 0)
       => events = <<[value |-> 0, offset |-> 0, quantity |-> 1]>>

C23_ActionsAreNormal ==
  (outcome.kind # "Pending" /\ IsGrammatical)
    => LET Normal(groups) ==
             ReachesNormalisation(groups)
               => \A k \in 1..Len(groups) :
                    \A a \in 1..Len(groups[k].actions) :
                      IsNormalAction(NormaliseActions(groups)[k].actions[a])
       IN  Normal(Parsed)

(***************************************************************************)
(* C24.  The group list handed to the solver has no two adjacent groups    *)
(* that are structurally equal (the same number of actions, equal actions  *)
(* position by position, the same suppression) and no group of quantity 0, *)
(* also when a group of quantity 0 sat between two equal groups.           *)
(***************************************************************************)
\* Two groups with the same actions and the same suppression.
StructurallyEqual(a, b) ==
  /\ Len(a.actions) = Len(b.actions)
  /\ a.suppression = b.suppression
  /\ \A i \in 1..Len(a.actions) : a.actions[i] = b.actions[i]

\* groups has no group of quantity 0 and no two adjacent equal groups.
IsCollapsed(groups) ==
  /\ \A k \in 1..Len(groups) : groups[k].quantity # 0
  /\ \A k \in 1..(Len(groups) - 1) :
       ~StructurallyEqual(groups[k], groups[k + 1])

C24_SolverGroupsAreCollapsed ==
  (outcome.kind = "Result" /\ outcome.groups # <<>>)
    => IsCollapsed(outcome.groups)

(***************************************************************************)
(* C25.  Multiplexes are unordered: exchanging two neighbouring event      *)
(* chains inside a multiplex bracket of a pattern, events of equal value   *)
(* and different offsets included, gives a Result with the same valid,     *)
(* period, cardinality, ground and normalised.                             *)
(***************************************************************************)
RECURSIVE EventChainStarts(_, _)
\* The indices at which the event chains of the run starting at i start.
EventChainStarts(s, i) ==
  IF EventsEnd(s, i) = 0 THEN {}
  ELSE {i} \cup EventChainStarts(s, EventsEnd(s, i))

\* The indices of s at which an event chain inside a bracket starts and is
\* followed by another event chain.
SwappableAt(s) ==
  {i \in UNION {EventChainStarts(s, b + 1) :
                  b \in {k \in 1..Len(s) : s[k] = "["}} :
     EventsEnd(s, EventsEnd(s, i)) # 0}

\* s with the event chain starting at i and the next one exchanged.
SwapEventChains(s, i) ==
  LET Swap(first, second) ==
        SubSeq(s, 1, i - 1) \o SubSeq(s, first, second - 1)
          \o SubSeq(s, i, first - 1) \o SubSeq(s, second, Len(s))
  IN  Swap(EventsEnd(s, i), EventsEnd(s, EventsEnd(s, i)))

C25_MultiplexOrderIsIrrelevant ==
  (outcome.kind = "Result" /\ IsGrammatical)
    => \A i \in SwappableAt(input) :
         SameAnalysis(outcome, Siteswap(SwapEventChains(input, i), options))

(***************************************************************************)
(* C26.  In every Result that the solver reaches, with a period p of       *)
(* either sign, the state of every hand satisfies state[i] =               *)
(* (state[i - p] if i - p lies in the window, else 0) - delta[i] on every  *)
(* beat i of the window, and valid is true exactly when, for every hand,   *)
(* the |p| entries at the tail of the window (at its head when p < 0) are  *)
(* all zero.                                                               *)
(***************************************************************************)
\* The state of a hand solves the equations of the hand for the period p
\* (a rational): where i - p lies in the window it is a beat of the window.
SolvesEquations(state, delta, range, p) ==
  \A i \in range.min..range.max :
    LET Entry(beat) == state.at[beat - range.min]
        Inside == /\ range.min * p.den <= i * p.den - p.num
                  /\ i * p.den - p.num <= range.max * p.den
    IN  /\ ~Entry(i).nan
        /\ Inside => p.den = 1 /\ ~Entry(i - p.num).nan
        /\ Entry(i).v = (IF Inside THEN Entry(i - p.num).v ELSE 0)
                          - delta.at[i - range.min]

\* The |p| entries at the tail of the window, or at its head when p < 0,
\* are zero.
EndsAtRest(state, range, p) ==
  \A i \in range.min..range.max :
    (IF p.num > 0 THEN i * p.den > range.max * p.den - p.num
                  ELSE i * p.den < range.min * p.den - p.num)
      => state.at[i - range.min] = [v |-> 0, nan |-> FALSE]

C26_StateSolvesTheEquations ==
  (outcome.kind = "Result" /\ outcome.states # <<>>)
    => /\ \A hand \in DOMAIN outcome.states :
            SolvesEquations(outcome.states[hand], outcome.deltas[hand],
                            outcome.ranges[hand], outcome.period)
       /\ outcome.valid
            <=> \A hand \in DOMAIN outcome.states :
                  EndsAtRest(outcome.states[hand], outcome.ranges[hand],
                             outcome.period)

(***************************************************************************)
(* C27.  convertInteger writes n as a decimal digit for 0 <= n < 10, as    *)
(* the letter a + n - 10 for 10 <= n < 25 and as the braced signed decimal *)
(* {n} for every other integer, the negative ones included, and reading    *)
(* what it wrote as a value gives back n.  Checked for the integers of the *)
(* pattern: the values of its events and the quantities of its chains.     *)
(***************************************************************************)
\* The values and the quantities that occur in groups.
IntegersOf(groups) ==
  UNION {{groups[k].quantity}
           \cup UNION {UNION {{groups[k].actions[a][e].value,
                               groups[k].actions[a][e].quantity}
                              : e \in 1..Len(groups[k].actions[a])}
                       : a \in 1..Len(groups[k].actions)}
         : k \in 1..Len(groups)}

\* string is the one value of the grammar that stands for n, in the form
\* the integer n is to be written in.
IsValueFor(string, n) ==
  /\ ValueEnd(string, 1) = Len(string) + 1
  /\ convertValue(string, 1, Len(string) + 1) = n
  /\ IF 0 <= n /\ n < 25
     THEN string = <<Alphanumeric[n + 1]>>
     ELSE Head(string) = "{" /\ string[Len(string)] = "}"

C27_ConvertIntegerRoundTrips ==
  (outcome.kind # "Pending" /\ IsGrammatical)
    => \A n \in IntegersOf(Parsed) : IsValueFor(convertInteger(n), n)

(***************************************************************************)
(* C28.  After the reduction to the minimal period, the reported period is *)
(* the sum, over the groups kept and walked by the solver, of quantity x   *)
(* (number of actions - suppression), also when the repeated blocks of the *)
(* group list agree in actions and suppression and differ in quantity.  A  *)
(* converted implicit group takes one beat, as before its conversion.      *)
(***************************************************************************)
\* The beats the solver walks over groups.
WalkedBeats(groups) ==
  SumSeq([k \in 1..Len(groups) |->
            groups[k].quantity
              * (Len(groups[k].actions) - groups[k].suppression)])

C28_PeriodIsTheBeatsOfTheKeptGroups ==
  (outcome.kind = "Result" /\ outcome.groups # <<>>)
    => /\ "period" \in outcome.present
       /\ outcome.period.num = WalkedBeats(outcome.groups) * outcome.period.den

(***************************************************************************)
(* C29.  Props are conserved: in every Result that the solver reaches the  *)
(* entries of the delta arrays of all hands sum to 0, and in every valid   *)
(* Result the entries of the states of all hands sum to the cardinality.   *)
(***************************************************************************)
\* The sum of the entries of the delta arrays.
DeltaTotal(deltas, ranges) ==
  LET hands == Cardinality(DOMAIN deltas)
      OfHand(h) ==
        SumSeq([i \in 1..(ranges[h].max - ranges[h].min + 1) |->
                  deltas[h].at[i - 1]])
  IN  SumSeq([h \in 1..hands |-> OfHand(h - 1)])

\* The sum of the entries of the states; no entry is NaN.
StateTotal(states, ranges) ==
  LET hands == Cardinality(DOMAIN states)
      OfHand(h) ==
        SumSeq([i \in 1..(ranges[h].max - ranges[h].min + 1) |->
                  states[h].at[i - 1].v])
  IN  SumSeq([h \in 1..hands |-> OfHand(h - 1)])

C29_PropsAreConserved ==
  (outcome.kind = "Result" /\ outcome.deltas # <<>>)
    => /\ DeltaTotal(outcome.deltas, outcome.ranges) = 0
       /\ outcome.valid
            => StateTotal(outcome.states, outcome.ranges)
                 = outcome.cardinality

(***************************************************************************)
(* C30.  The options only gate: a pattern that gives a Result with         *)
(* allowTheoreticalPatterns = false and some maximumLength gives a Result  *)
(* with the same fields with allowTheoreticalPatterns = true and with any  *)
(* maximumLength at least as large; and with allowTheoreticalPatterns =    *)
(* false every valid Result has period >= 1 and cardinality >= 0.          *)
(***************************************************************************)
\* The options that allow at least what the options of the state allow.
LaxerOptions ==
  {o \in AllOptions :
     /\ options.allowTheoreticalPatterns => o.allowTheoreticalPatterns
     /\ o.maximumLength >= options.maximumLength}

C30_OptionsOnlyGate ==
  (outcome.kind = "Result" /\ ~options.allowTheoreticalPatterns)
    => /\ \A o \in LaxerOptions : Siteswap(input, o) = outcome
       /\ outcome.valid
            => /\ outcome.period.den = 1
               /\ outcome.period.num >= 1
               /\ outcome.cardinality >= 0

\* A valid Result for a pattern with a tuple under the strictest options.
C30_Witness ==
  /\ outcome.kind = "Result"
  /\ outcome.valid
  /\ ~options.allowTheoreticalPatterns
  /\ options.maximumLength = SmallMaximumLength
  /\ outcome.hands # <<>>
  /\ LaxerOptions # {options}

====
